---------------------------- MODULE Spec2Model ----------------------------
(***************************************************************************)
(* Model of the collection engine of eleboucher/github-exporter            *)
(* (internal/collector/manager.go): the descriptor registry built by       *)
(* NewManager/initDescriptors, Describe, and the Collect pass that fans    *)
(* out one fetchAndCollect worker per configured request under a permit    *)
(* pool of 5 and joins them with a wait group.                             *)
(*                                                                         *)
(* Strings whose characters matter to the code (label names that are       *)
(* sorted, API paths that are trimmed, HTTP methods, label values) are     *)
(* sequences of byte codes; strings that are only compared for equality    *)
(* (metric names, gjson paths, enum tokens) are TLA+ strings.  Numbers     *)
(* are integers (every float64 the model handles is integral).             *)
(***************************************************************************)
EXTENDS Integers, Sequences, FiniteSets, TLC

(***************************************************************************)
(* Bounds of the model.                                                    *)
(***************************************************************************)
\* the fan-out scenario configures SemaphoreCap + ExtraRequests requests
ExtraRequests == 1
\* number of Collect invocations the sink makes in the small scenarios,
\*
MaxInvocations == 2

\* the number of scrapeAll passes the periodic collector makes: the one of
\* Start and those of the ticker loop
MaxPasses == 3
\* the longest sequence a document of the parseValue inputs holds
MaxLen == 3

(***************************************************************************)
(* Byte strings.                                                           *)
(***************************************************************************)
\* ""
EmptyStr == <<>>
\* "api_path", the reserved request-identity label name
ApiPathKey == <<97, 112, 105, 95, 112, 97, 116, 104>>
\* "repo"
RepoKey == <<114, 101, 112, 111>>
\* "type"
TypeKey == <<116, 121, 112, 101>>
\* "GET"
MethodGET == <<71, 69, 84>>
\* "POST"
MethodPOST == <<80, 79, 83, 84>>
\* "G T", not an HTTP token
MethodBad == <<71, 32, 84>>
\* "http://gh"
BaseURL == <<104, 116, 116, 112, 58, 47, 47, 103, 104>>
\* "true" and "false"
StrTrue == <<116, 114, 117, 101>>
StrFalse == <<102, 97, 108, 115, 101>>

\* Go's string comparison s < t (bytewise lexicographic), used by sort.Strings
RECURSIVE StrLess(_, _)
StrLess(s, t) ==
  IF t = <<>> THEN FALSE
  ELSE IF s = <<>> THEN TRUE
  ELSE IF Head(s) # Head(t) THEN Head(s) < Head(t)
  ELSE StrLess(Tail(s), Tail(t))

\* insert x into the sorted list l, after the elements not greater than x
RECURSIVE InsertSorted(_, _)
InsertSorted(x, l) ==
  IF l = <<>> THEN <<x>>
  ELSE IF StrLess(x, Head(l)) THEN <<x>> \o l
  ELSE <<Head(l)>> \o InsertSorted(x, Tail(l))

\* sort.Strings(keys)
RECURSIVE SortStrings(_)
SortStrings(keys) ==
  IF keys = <<>> THEN <<>>
  ELSE InsertSorted(Head(keys), SortStrings(Tail(keys)))

\* strings.TrimLeft(s, "/")
RECURSIVE TrimLeftSlash(_)
TrimLeftSlash(s) ==
  IF s # <<>> /\ Head(s) = 47 THEN TrimLeftSlash(Tail(s)) ELSE s

\* decimal text of a natural number
RECURSIVE NatToStr(_)
NatToStr(n) ==
  IF n < 10 THEN <<48 + n>> ELSE NatToStr(n \div 10) \o <<48 + (n % 10)>>

\* decimal text of an integer
IntToStr(n) == IF n < 0 THEN <<45>> \o NatToStr(0 - n) ELSE NatToStr(n)

IsDigit(c) == c >= 48 /\ c <= 57

AllDigits(s) == s # <<>> /\ \A k \in 1..Len(s) : IsDigit(s[k])

\* value of a string of decimal digits
RECURSIVE DigitsToNat(_)
DigitsToNat(s) ==
  IF s = <<>> THEN 0
  ELSE 10 * DigitsToNat(SubSeq(s, 1, Len(s) - 1)) + (s[Len(s)] - 48)

(***************************************************************************)
(* time.Parse(time.RFC3339, s) for the layouts "YYYY-MM-DDTHH:MM:SSZ" and  *)
(* "YYYY-MM-DDTHH:MM:SS+hh:mm" (no fractional seconds), years from 1970.   *)
(***************************************************************************)
IsLeap(y) == (y % 4 = 0 /\ y % 100 # 0) \/ y % 400 = 0

DaysInMonth(y, m) ==
  IF m = 2 THEN (IF IsLeap(y) THEN 29 ELSE 28)
  ELSE IF m \in {4, 6, 9, 11} THEN 30 ELSE 31

RECURSIVE DaysBeforeMonth(_, _)
DaysBeforeMonth(y, m) ==
  IF m <= 1 THEN 0 ELSE DaysBeforeMonth(y, m - 1) + DaysInMonth(y, m - 1)

\* days from 1970-01-01 to the first day of year y
DaysBeforeYear(y) ==
  365 * (y - 1970) + ((y - 1969) \div 4) - ((y - 1901) \div 100)
    + ((y - 1601) \div 400)

Num2(s, k) == DigitsToNat(SubSeq(s, k, k + 1))

\* the date-time prefix "YYYY-MM-DDTHH:MM:SS" is well formed and in range
ValidDateTime(s) ==
  /\ Len(s) >= 19
  /\ \A k \in {1, 2, 3, 4, 6, 7, 9, 10, 12, 13, 15, 16, 18, 19} : IsDigit(s[k])
  /\ s[5] = 45 /\ s[8] = 45 /\ s[11] = 84 /\ s[14] = 58 /\ s[17] = 58
  /\ DigitsToNat(SubSeq(s, 1, 4)) >= 1970
  /\ Num2(s, 6) \in 1..12
  /\ Num2(s, 9) >= 1
  /\ Num2(s, 9) <= DaysInMonth(DigitsToNat(SubSeq(s, 1, 4)), Num2(s, 6))
  /\ Num2(s, 12) <= 23 /\ Num2(s, 15) <= 59 /\ Num2(s, 18) <= 59

\* the zone suffix is "Z" or a numeric offset
ValidZone(s) ==
  \/ Len(s) = 20 /\ s[20] = 90
  \/ /\ Len(s) = 25
     /\ s[20] \in {43, 45}
     /\ \A k \in {21, 22, 24, 25} : IsDigit(s[k])
     /\ s[23] = 58
     /\ Num2(s, 21) <= 23 /\ Num2(s, 24) <= 59

ZoneOffset(s) ==
  IF Len(s) = 20 THEN 0
  ELSE (IF s[20] = 45 THEN -1 ELSE 1) * (Num2(s, 21) * 3600 + Num2(s, 24) * 60)

\* a conversion that drops the zone offset
UnixOfLocalReading(s) ==
  LET y == DigitsToNat(SubSeq(s, 1, 4))
      days == DaysBeforeYear(y) + DaysBeforeMonth(y, Num2(s, 6)) + (Num2(s, 9) - 1)
  IN  days * 86400 + Num2(s, 12) * 3600 + Num2(s, 15) * 60 + Num2(s, 18)

\* err == nil of time.Parse(time.RFC3339, s)
IsRFC3339(s) == ValidDateTime(s) /\ ValidZone(s)

\* t.Unix() of the parsed time
UnixOfRFC3339(s) ==
  LET y == DigitsToNat(SubSeq(s, 1, 4))
      days == DaysBeforeYear(y) + DaysBeforeMonth(y, Num2(s, 6)) + (Num2(s, 9) - 1)
  IN  days * 86400 + Num2(s, 12) * 3600 + Num2(s, 15) * 60 + Num2(s, 18)
        - ZoneOffset(s)

(***************************************************************************)
(* gjson.  A response body is modelled by what gjson.Get returns on it:    *)
(* the table `at` from the paths it answers to their Result (every other   *)
(* path yields the Null result), and whether the text is well-formed       *)
(* JSON.  gjson.Get does not validate: on malformed text it still returns  *)
(* whatever it finds.                                                      *)
(***************************************************************************)
NullResult == [Type |-> "Null", Str |-> <<>>, Num |-> 0, IsArr |-> FALSE, Elems |-> <<>>]

NumberResult(n) == [Type |-> "Number", Str |-> <<>>, Num |-> n, IsArr |-> FALSE, Elems |-> <<>>]

StringResult(s) == [Type |-> "String", Str |-> s, Num |-> 0, IsArr |-> FALSE, Elems |-> <<>>]

TrueResult == [Type |-> "True", Str |-> <<>>, Num |-> 0, IsArr |-> FALSE, Elems |-> <<>>]

FalseResult == [Type |-> "False", Str |-> <<>>, Num |-> 0, IsArr |-> FALSE, Elems |-> <<>>]

\* a JSON array with the given elements; Str holds its raw text
ArrayResult(raw, elems) == [Type |-> "JSON", Str |-> raw, Num |-> 0, IsArr |-> TRUE, Elems |-> elems]

\* a JSON object; Str holds its raw text
ObjectResult(raw) == [Type |-> "JSON", Str |-> raw, Num |-> 0, IsArr |-> FALSE, Elems |-> <<>>]

\* gjson.Get(jsonStr, path)
gjsonGet(jsonStr, path) ==
  IF path \in DOMAIN jsonStr.at THEN jsonStr.at[path] ELSE NullResult

\* Result.IsArray()
ResultIsArray(res) == res.Type = "JSON" /\ res.IsArr

\* Result.Array(): Null gives no element, a non-array gives itself
ResultArray(res) ==
  IF res.Type = "Null" THEN <<>>
  ELSE IF ~ResultIsArray(res) THEN <<res>>
  ELSE res.Elems

\* strconv.ParseFloat on an integral decimal text; 0 on a syntax error
ParseFloat(s) ==
  IF AllDigits(s) THEN DigitsToNat(s)
  ELSE IF s # <<>> /\ Head(s) = 45 /\ AllDigits(Tail(s)) THEN 0 - DigitsToNat(Tail(s))
  ELSE IF s # <<>> /\ Head(s) = 43 /\ AllDigits(Tail(s)) THEN DigitsToNat(Tail(s))
  ELSE 0

\* Result.Float()
ResultFloat(res) ==
  CASE res.Type = "True" -> 1
    [] res.Type = "String" -> ParseFloat(res.Str)
    [] res.Type = "Number" -> res.Num
    [] OTHER -> 0

\* Result.String()
ResultString(res) ==
  CASE res.Type = "False" -> StrFalse
    [] res.Type = "Number" -> IntToStr(res.Num)
    [] res.Type = "String" -> res.Str
    [] res.Type = "JSON" -> res.Str
    [] res.Type = "True" -> StrTrue
    [] OTHER -> EmptyStr

(***************************************************************************)
(* Configuration (internal/config).                                        *)
(***************************************************************************)
AggregateSum == "sum"
AggregateCount == "count"
AggregateMax == "max"
TypeDate == "date"
TypeFloat == "float"

\* a MetricConfig value
MetricConfig(name, path, valueType, aggregate, labels) ==
  [Name |-> name, Path |-> path, ValueType |-> valueType,
   Aggregate |-> aggregate, Labels |-> labels]

\* a RequestConfig value
RequestConfig(apiPath, method, metricList) ==
  [ApiPath |-> apiPath, Method |-> method, Metrics |-> metricList]

(***************************************************************************)
(* time.ParseDuration on texts without a fraction, and Config.GetDuration. *)
(* A time.Duration is counted in milliseconds here, so the units are ms,   *)
(* s, m and h.                                                             *)
(***************************************************************************)
\* unitMap of package time: "ms", "s", "m", "h"
UnitMap ==
  (<<109, 115>> :> 1) @@ (<<115>> :> 1000) @@ (<<109>> :> 60000)
    @@ (<<104>> :> 3600000)

\* the number of leading characters of s that are digits
RECURSIVE LeadingDigits(_)
LeadingDigits(s) ==
  IF s # <<>> /\ IsDigit(Head(s)) THEN 1 + LeadingDigits(Tail(s)) ELSE 0

\* the number of leading characters of s that are neither a digit nor "."
RECURSIVE UnitLen(_)
UnitLen(s) ==
  IF s # <<>> /\ ~IsDigit(Head(s)) /\ Head(s) # 46 THEN 1 + UnitLen(Tail(s)) ELSE 0

\* the loop of ParseDuration over the groups "<digits><unit>" of s
RECURSIVE DurationGroups(_)
DurationGroups(s) ==
  IF s = <<>> THEN [ok |-> TRUE, d |-> 0]
  ELSE LET nd == LeadingDigits(s)
           rest == SubSeq(s, nd + 1, Len(s))
           ul == UnitLen(rest)
           u == SubSeq(rest, 1, ul)
       IN  IF nd = 0 \/ ul = 0 \/ u \notin DOMAIN UnitMap
           THEN [ok |-> FALSE, d |-> 0]
           ELSE LET more == DurationGroups(SubSeq(rest, ul + 1, Len(rest)))
                IN  IF more.ok
                    THEN [ok |-> TRUE,
                          d |-> DigitsToNat(SubSeq(s, 1, nd)) * UnitMap[u] + more.d]
                    ELSE [ok |-> FALSE, d |-> 0]

\* time.ParseDuration(s): ok is err == nil, d is 0 on an error
ParseDuration(s) ==
  LET signed == s # <<>> /\ Head(s) \in {43, 45}
      neg == s # <<>> /\ Head(s) = 45
      body == IF signed THEN Tail(s) ELSE s
  IN  IF body = <<48>> THEN [ok |-> TRUE, d |-> 0]
      ELSE IF body = <<>> THEN [ok |-> FALSE, d |-> 0]
      ELSE LET g == DurationGroups(body)
           IN  [ok |-> g.ok, d |-> IF neg THEN 0 - g.d ELSE g.d]

\* config.go lines 93-99
GetDuration(c) ==
  LET d == ParseDuration(c.ScrapeInterval).d
  IN  IF d = 0 THEN 15 * 60000 ELSE d

(***************************************************************************)
(* Manager.parseValue                                                      *)
(***************************************************************************)
\* a max loop whose comparison is the wrong way round
RECURSIVE MaxFromLess(_, _, _)
MaxFromLess(results, from, val) ==
  IF from > Len(results) THEN val
  ELSE MaxFromLess(results, from + 1,
                   IF ResultFloat(results[from]) < val
                   THEN ResultFloat(results[from]) ELSE val)

\* the max loop of lines 229-235 over results[from..], starting from val
RECURSIVE MaxFrom(_, _, _)
MaxFrom(results, from, val) ==
  IF from > Len(results) THEN val
  ELSE MaxFrom(results, from + 1,
               IF ResultFloat(results[from]) > val
               THEN ResultFloat(results[from]) ELSE val)

\* the sum loop of lines 240-242
RECURSIVE SumFrom(_, _, _)
SumFrom(results, from, val) ==
  IF from > Len(results) THEN val
  ELSE SumFrom(results, from + 1, val + ResultFloat(results[from]))

\* a parseValue that looks at the value type before it looks for a sequence
parseValueDateFirst(jsonStr, metric) ==
  LET result == gjsonGet(jsonStr, metric.Path)
      results == ResultArray(result)
  IN  IF metric.ValueType = TypeDate
      THEN IF result.Type = "String" /\ IsRFC3339(result.Str)
           THEN UnixOfRFC3339(result.Str) ELSE 0
      ELSE IF ~ResultIsArray(result) THEN ResultFloat(result)
      ELSE CASE metric.Aggregate = AggregateCount -> Len(results)
             [] metric.Aggregate = AggregateMax ->
                  IF Len(results) > 0
                  THEN MaxFrom(results, 2, ResultFloat(results[1]))
                  ELSE 0
             [] OTHER -> SumFrom(results, 1, 0)

\* lines 203-245
parseValue(jsonStr, metric) ==
  LET result == gjsonGet(jsonStr, metric.Path)
      results == ResultArray(result)
  IN  IF ~ResultIsArray(result)
      THEN IF metric.ValueType = TypeDate
           THEN IF result.Type = "String"
                THEN IF ~IsRFC3339(result.Str) THEN 0
                     ELSE UnixOfRFC3339(result.Str)
                ELSE 0
           ELSE ResultFloat(result)
      ELSE CASE metric.Aggregate = AggregateCount -> Len(results)
             [] metric.Aggregate = AggregateMax ->
                  IF Len(results) > 0
                  THEN MaxFrom(results, 2, ResultFloat(results[1]))
                  ELSE 0
             [] OTHER -> SumFrom(results, 1, 0)

\* parseValue of the periodic collector (part_004 lines 139-169): no
\* value type, a plain number for a scalar
parseValueGauge(jsonStr, metric) ==
  LET result == gjsonGet(jsonStr, metric.Path)
      results == ResultArray(result)
  IN  IF ~ResultIsArray(result) THEN ResultFloat(result)
      ELSE CASE metric.Aggregate = "count" -> Len(results)
             [] metric.Aggregate = "max" ->
                  IF Len(results) > 0
                  THEN MaxFrom(results, 2, ResultFloat(results[1]))
                  ELSE 0
             [] OTHER -> SumFrom(results, 1, 0)

(***************************************************************************)
(* prometheus.NewDesc and prometheus.NewConstMetric, as far as the         *)
(* collector depends on them: a descriptor with a duplicated or empty      *)
(* label name is invalid, and NewConstMetric fails on an invalid           *)
(* descriptor or on a label-value count that differs from the number of    *)
(* label names.  Metric names are taken to be valid.                       *)
(***************************************************************************)
HasDuplicates(l) == \E a, b \in 1..Len(l) : a < b /\ l[a] = l[b]

NewDesc(fqName, variableLabels) ==
  [fqName |-> fqName,
   variableLabels |-> variableLabels,
   err |-> HasDuplicates(variableLabels)
             \/ \E k \in 1..Len(variableLabels) : variableLabels[k] = EmptyStr]

NewConstMetric(desc, val, labelValues) ==
  [err |-> desc.err \/ Len(labelValues) # Len(desc.variableLabels),
   metric |-> [desc |-> desc, value |-> val, labelValues |-> labelValues]]

(***************************************************************************)
(* Manager.initDescriptors                                                 *)
(***************************************************************************)
\* the orders in which `for k := range metric.Labels` may visit the keys
KeyOrders(labels) ==
  {o \in [1..Cardinality(DOMAIN labels) -> DOMAIN labels] :
     \A a, b \in DOMAIN o : a # b => o[a] # o[b]}

\* lines 52-57: "api_path", then the keys in iteration order, then sorted
LabelKeysOf(order) == SortStrings(<<ApiPathKey>> \o order)

\* lines 52-70: the MetricInfo of one MetricConfig
MetricInfoOf(metric, order) ==
  [Desc |-> NewDesc(metric.Name, LabelKeysOf(order)),
   LabelKeys |-> LabelKeysOf(order),
   Config |-> metric]

\* the strings of l joined, each followed by ","
RECURSIVE JoinKeys(_)
JoinKeys(l) == IF l = <<>> THEN <<>> ELSE Head(l) \o <<44>> \o JoinKeys(Tail(l))

\* a registry keyed by the name together with the label names
MapPutByNameAndLabels(map, name, info) ==
  LET key == name \o <<58>> \o JoinKeys(info.LabelKeys)
  IN  [k \in DOMAIN map \cup {key} |-> IF k = key THEN info ELSE map[k]]

\* a registry that keeps the first declaration of a name
MapPutKeepFirst(map, name, info) ==
  [k \in DOMAIN map \cup {name} |-> IF k \in DOMAIN map THEN map[k] ELSE info]

\* m.metrics[name] = info
MapPut(map, name, info) ==
  [k \in DOMAIN map \cup {name} |-> IF k = name THEN info ELSE map[k]]

\* the MetricConfigs in the order of the two nested loops of lines 50-51
RECURSIVE AllMetrics(_)
AllMetrics(requests) ==
  IF requests = <<>> THEN <<>>
  ELSE Head(requests).Metrics \o AllMetrics(Tail(requests))

\* the registries the loops can build from flat[k..], starting from acc
RECURSIVE DescriptorsFrom(_, _, _)
DescriptorsFrom(flat, k, acc) ==
  IF k > Len(flat) THEN {acc}
  ELSE UNION {DescriptorsFrom(flat, k + 1,
                              MapPut(acc, flat[k].Name, MetricInfoOf(flat[k], o)))
              : o \in KeyOrders(flat[k].Labels)}

\* the values m.metrics can have after NewManager(c)
initDescriptors(c) == DescriptorsFrom(AllMetrics(c.Requests), 1, <<>>)

(***************************************************************************)
(* Manager.Describe: one descriptor sent per registry entry, in map order; *)
(* the result is kept as a bag (descriptor -> number of times sent).       *)
(***************************************************************************)
DescribeSends(reg) ==
  LET ds == {reg[k].Desc : k \in DOMAIN reg}
  IN  [d \in ds |-> Cardinality({k \in DOMAIN reg : reg[k].Desc = d})]

(***************************************************************************)
(* Manager.fetchAndCollect, the per-metric loop body (lines 162-200).      *)
(***************************************************************************)
\* a label resolver that consults the metric's label mapping first
LabelValueOfMappingFirst(key, reqCfg, metric, jsonStr) ==
  IF key \in DOMAIN metric.Labels
  THEN ResultString(gjsonGet(jsonStr, metric.Labels[key]))
  ELSE IF key = ApiPathKey THEN reqCfg.ApiPath ELSE EmptyStr

\* lines 173-183: the value appended for one label key
LabelValueOf(key, reqCfg, metric, jsonStr) ==
  IF key = ApiPathKey THEN reqCfg.ApiPath
  ELSE IF key \in DOMAIN metric.Labels
       THEN ResultString(gjsonGet(jsonStr, metric.Labels[key]))
       ELSE EmptyStr

\* a loop over the label names of the MetricConfig at hand
LoopLabelKeysOwn(info, metric) ==
  SortStrings(<<ApiPathKey>> \o CHOOSE o \in KeyOrders(metric.Labels) : TRUE)

\* the label keys the loop of line 172 ranges over
LoopLabelKeys(info, metric) == info.LabelKeys

\* lines 171-184
LabelValuesOf(info, reqCfg, metric, jsonStr) ==
  LET keys == LoopLabelKeys(info, metric)
  IN  [k \in 1..Len(keys) |-> LabelValueOf(keys[k], reqCfg, metric, jsonStr)]

\* lines 163-199: the metrics one loop iteration sends on ch (none or one)
MetricsSent(reg, reqCfg, metric, jsonStr) ==
  IF metric.Name \notin DOMAIN reg THEN <<>>
  ELSE LET info == reg[metric.Name]
           val == parseValue(jsonStr, metric)
           res == NewConstMetric(info.Desc, val,
                                 LabelValuesOf(info, reqCfg, metric, jsonStr))
       IN  IF res.err THEN <<>> ELSE <<res.metric>>

(***************************************************************************)
(* net/http, as far as fetchAndCollect depends on it.                      *)
(***************************************************************************)
\* a token character of an HTTP method
IsTokenChar(c) ==
  \/ c \in 48..57 \/ c \in 65..90 \/ c \in 97..122
  \/ c \in {33, 35, 36, 37, 38, 39, 42, 43, 45, 46, 94, 95, 96, 124, 126}

\* http.NewRequest fails on a method that is not a token and on a URL with
\* a control character
NewRequestFails(method, url) ==
  \/ method = EmptyStr
  \/ \E k \in 1..Len(method) : ~IsTokenChar(method[k])
  \/ \E k \in 1..Len(url) : url[k] < 32 \/ url[k] = 127

\* a status check that only rejects what is below 200
StatusIsErrorBelow(code) == code < 200

\* line 151: the status is outside 200..299
StatusIsError(code) == code < 200 \/ code >= 300

\* the response body text "" (also the zero value of jsonStr)
NoBody == [wellFormed |-> FALSE, at |-> <<>>]

\* what the server and the transport can make of one round trip
RespOK(body) == [err |-> FALSE, StatusCode |-> 200, readErr |-> FALSE, body |-> body]

RespStatus(code, body) == [err |-> FALSE, StatusCode |-> code, readErr |-> FALSE, body |-> body]

RespTransportErr == [err |-> TRUE, StatusCode |-> 0, readErr |-> FALSE, body |-> NoBody]

RespReadErr == [err |-> FALSE, StatusCode |-> 200, readErr |-> TRUE, body |-> NoBody]

\* no round trip made
NoResp == [err |-> FALSE, StatusCode |-> 0, readErr |-> FALSE, body |-> NoBody]

\* a classification that drops the error of io.ReadAll
FetchOutcomeIgnoresReadErr(resp) ==
  IF resp.err THEN "do_err"
  ELSE IF StatusIsError(resp.StatusCode) THEN "status_err"
  ELSE "ok"

\* lines 132-160: how fetchAndCollect classifies a round trip
FetchOutcome(resp) ==
  IF resp.err THEN "do_err"
  ELSE IF StatusIsError(resp.StatusCode) THEN "status_err"
  ELSE IF resp.readErr THEN "read_err"
  ELSE "ok"

\* fetchAndProcess of the periodic collector (part_004 lines 110-128): the
\* error of io.ReadAll is dropped
ProcessOutcome(resp) ==
  IF resp.err THEN "do_err"
  ELSE IF resp.StatusCode < 200 \/ resp.StatusCode >= 300 THEN "status_err"
  ELSE "ok"

(***************************************************************************)
(* Response bodies the scenarios use.                                      *)
(***************************************************************************)
\* {"followers": 100, "public_repos": 50, "login": "u"}
BodyUser ==
  [wellFormed |-> TRUE,
   at |-> ("followers" :> NumberResult(100)) @@ ("public_repos" :> NumberResult(50))
            @@ ("login" :> StringResult(<<117>>))]

\* the same resource a moment later: {"followers": 101, "public_repos": 51, "login": "v"}
BodyUserLater ==
  [wellFormed |-> TRUE,
   at |-> ("followers" :> NumberResult(101)) @@ ("public_repos" :> NumberResult(51))
            @@ ("login" :> StringResult(<<118>>))]

\* a truncated text: {"followers": 100, "publ
BodyTruncated ==
  [wellFormed |-> FALSE, at |-> ("followers" :> NumberResult(100))]

\* an HTML error page
BodyErrorPage == [wellFormed |-> FALSE, at |-> <<>>]

\* "2024-01-15T10:30:00Z"
PushDate ==
  <<50, 48, 50, 52, 45, 48, 49, 45, 49, 53, 84, 49, 48, 58, 51, 48, 58, 48, 48, 90>>

\* [{"type":"PushEvent","repo":{"name":"r1"},"created_at":"2024-01-15T10:30:00Z","n":10},
\*  {"type":"IssueEvent","repo":{"name":"r2"},"created_at":"bad","n":30}]
BodyEvents ==
  [wellFormed |-> TRUE,
   at |-> ("#.n" :> ArrayResult(<<91, 49, 48, 44, 51, 48, 93>>,
                                <<NumberResult(10), NumberResult(30)>>))
            @@ ("#(type==\"PushEvent\").repo.name" :> StringResult(<<114, 49>>))
            @@ ("#(type==\"PushEvent\").type" :> StringResult(<<80, 117, 115, 104>>))
            @@ ("#(type==\"PushEvent\").created_at" :> StringResult(PushDate))
            @@ ("#(type==\"IssueEvent\").created_at" :> StringResult(<<98, 97, 100>>))
            @@ ("api_path" :> StringResult(<<100, 111, 99>>))
            @@ ("#" :> NumberResult(2))]

(***************************************************************************)
(* Scenarios: a configuration handed to NewManager, the round trips the    *)
(* upstream server can answer each request with, and the number of         *)
(* Collect invocations the sink makes.                                     *)
(***************************************************************************)
\* line 84: make(chan struct{}, 5)
SemaphoreCap == 5

NoLabels == <<>>

\* "15m", the scrape_interval Load fills in (config.go line 83)
DefaultScrapeInterval == <<49, 53, 109>>

Config(requests) ==
  [GithubAPIURL |-> BaseURL, Requests |-> requests,
   ScrapeInterval |-> DefaultScrapeInterval]

\* more requests than permits; one plain metric each; the odd requests
\* fail with HTTP 500, the even ones succeed
FanOutRequests == SemaphoreCap + ExtraRequests

ScFanOut ==
  [cfg |-> Config([k \in 1..FanOutRequests |->
             RequestConfig(<<47, 114>> \o NatToStr(k), EmptyStr,
               <<MetricConfig(<<109>> \o NatToStr(k), "followers", "", "", NoLabels)>>)]),
   server |-> [k \in 1..FanOutRequests |->
                 IF k % 2 = 1 THEN {RespStatus(500, BodyErrorPage)}
                 ELSE {RespOK(BodyUser)}],
   invocations |-> 1]

\* three requests with every kind of fetch failure:
\*   "/u"   GET  (default)  metrics f (followers), p (public_repos, label login)
\*   "//e"  POST            metrics e (max of #.n), d (date, labels repo and type)
\*   "/x"   with a method that is not a token, so that NewRequest fails
ScFaults ==
  [cfg |-> Config(<<
     RequestConfig(<<47, 117>>, EmptyStr,
       <<MetricConfig(<<102>>, "followers", TypeFloat, "", NoLabels),
         MetricConfig(<<112>>, "public_repos", "", AggregateSum,
                      (<<108, 111, 103, 105, 110>> :> "login"))>>),
     RequestConfig(<<47, 47, 101>>, MethodPOST,
       <<MetricConfig(<<101>>, "#.n", "", AggregateMax, NoLabels),
         MetricConfig(<<100>>, "#(type==\"PushEvent\").created_at", TypeDate, "",
                      (RepoKey :> "#(type==\"PushEvent\").repo.name")
                        @@ (TypeKey :> "#(type==\"PushEvent\").type"))>>),
     RequestConfig(<<47, 120>>, MethodBad,
       <<MetricConfig(<<120>>, "followers", "", "", NoLabels)>>) >>),
   server |-> <<
     {RespTransportErr, RespReadErr,
      RespStatus(199, BodyUser), RespStatus(300, BodyErrorPage),
      RespStatus(404, BodyErrorPage), RespStatus(500, BodyErrorPage),
      RespOK(BodyUser), RespStatus(299, BodyUserLater), RespOK(BodyTruncated)},
     {RespOK(BodyEvents), RespStatus(500, BodyErrorPage)},
     {RespOK(BodyUser)} >>,
   invocations |-> 1]

\* a metric name declared twice with different label sets, and label
\* mappings that declare the reserved name:
\*   "/a"  X {repo}, Y {api_path}, Z {api_path}
\*   "/b"  X {type}, Z {}
ScLabels ==
  [cfg |-> Config(<<
     RequestConfig(<<47, 97>>, EmptyStr,
       <<MetricConfig(<<88>>, "#", "", "", (RepoKey :> "#(type==\"PushEvent\").repo.name")),
         MetricConfig(<<89>>, "#", "", "", (ApiPathKey :> "api_path")),
         MetricConfig(<<90>>, "#", "", "", (ApiPathKey :> "api_path"))>>),
     RequestConfig(<<47, 98>>, EmptyStr,
       <<MetricConfig(<<88>>, "#.n", "", AggregateCount,
                      (TypeKey :> "#(type==\"PushEvent\").type")),
         MetricConfig(<<90>>, "#.n", "", "", NoLabels)>>) >>),
   server |-> <<
     {RespOK(BodyEvents), RespStatus(500, BodyErrorPage)},
     {RespOK(BodyEvents), RespStatus(500, BodyErrorPage)} >>,
   invocations |-> 1]

\* two requests, the first succeeding and the second failing, collected
\* MaxInvocations times
ScRepeat ==
  [cfg |-> Config(<<
     RequestConfig(<<47, 117>>, EmptyStr,
       <<MetricConfig(<<102>>, "followers", "", "", NoLabels)>>),
     RequestConfig(<<47, 101>>, MethodGET,
       <<MetricConfig(<<101>>, "#.n", "", "", NoLabels)>>) >>),
   server |-> << {RespOK(BodyUser)}, {RespStatus(500, BodyErrorPage)} >>,
   invocations |-> MaxInvocations]

\* one request "/p" that the server answers differently from pass to pass
\* (two successive contents, a 500, a body that cannot be read), collected
\* MaxInvocations times
ScPasses ==
  [cfg |-> Config(<<
     RequestConfig(<<47, 112>>, EmptyStr,
       <<MetricConfig(<<102>>, "followers", "", "", NoLabels)>>) >>),
   server |-> << {RespOK(BodyUser), RespOK(BodyUserLater),
                  RespStatus(500, BodyErrorPage), RespReadErr} >>,
   invocations |-> MaxInvocations]

\* three requests, the first succeeding, the second answered with a 500,
\* the third with a method NewRequest rejects, collected by two
\* invocations that run at the same time: six workers for five permits
ScConcurrent ==
  [cfg |-> Config(<<
     RequestConfig(<<47, 117>>, EmptyStr,
       <<MetricConfig(<<102>>, "followers", "", "", NoLabels)>>),
     RequestConfig(<<47, 101>>, MethodGET,
       <<MetricConfig(<<101>>, "#.n", "", "", NoLabels)>>),
     RequestConfig(<<47, 120>>, MethodBad,
       <<MetricConfig(<<120>>, "followers", "", "", NoLabels)>>) >>),
   server |-> << {RespOK(BodyUser)}, {RespStatus(500, BodyErrorPage)}, {RespOK(BodyUser)} >>,
   invocations |-> 2]

\* more requests than permits and nothing to emit: as many requests as
\* there are permits fail with HTTP 500, the others succeed and have no
\* metric
ScCrowd ==
  [cfg |-> Config([k \in 1..FanOutRequests |->
             RequestConfig(<<47, 99>> \o NatToStr(k), EmptyStr, <<>>)]),
   server |-> [k \in 1..FanOutRequests |->
                 IF k <= SemaphoreCap THEN {RespStatus(500, BodyErrorPage)}
                 ELSE {RespOK(BodyUser)}],
   invocations |-> 1]

\* no request configured
ScEmpty == [cfg |-> Config(<<>>), server |-> <<>>, invocations |-> 1]

Scenarios == {ScFanOut, ScFaults, ScLabels, ScRepeat, ScPasses, ScEmpty}

(***************************************************************************)
(* Inputs of parseValue: one request "/v" with one metric v on the path    *)
(* "v", of every value type and aggregation token, collected from a        *)
(* document that holds a scalar, a sequence of at most MaxLen elements, or *)
(* nothing at that path.                                                   *)
(***************************************************************************)
\* "2024-02-29T23:59:59+02:00"
LeapDate ==
  <<50, 48, 50, 52, 45, 48, 50, 45, 50, 57, 84, 50, 51, 58, 53, 57, 58, 53, 57,
    43, 48, 50, 58, 48, 48>>

\* "2000-03-01T00:00:00-05:00"
WestDate ==
  <<50, 48, 48, 48, 45, 48, 51, 45, 48, 49, 84, 48, 48, 58, 48, 48, 58, 48, 48,
    45, 48, 53, 58, 48, 48>>

\* "1999-12-31T23:59:59Z"
EveDate ==
  <<49, 57, 57, 57, 45, 49, 50, 45, 51, 49, 84, 50, 51, 58, 53, 57, 58, 53, 57, 90>>

\* texts time.Parse rejects: "bad", "2024-01-15", "2023-02-29T00:00:00Z",
\* "2024-01-15 10:30:00Z", "2024-01-15T24:00:00Z", "1705314600", ""
NotDates ==
  { <<98, 97, 100>>,
    <<50, 48, 50, 52, 45, 48, 49, 45, 49, 53>>,
    <<50, 48, 50, 51, 45, 48, 50, 45, 50, 57, 84, 48, 48, 58, 48, 48, 58, 48, 48, 90>>,
    <<50, 48, 50, 52, 45, 48, 49, 45, 49, 53, 32, 49, 48, 58, 51, 48, 58, 48, 48, 90>>,
    <<50, 48, 50, 52, 45, 48, 49, 45, 49, 53, 84, 50, 52, 58, 48, 48, 58, 48, 48, 90>>,
    <<49, 55, 48, 53, 51, 49, 52, 54, 48, 48>>,
    EmptyStr }

\* the raw text of a scalar
RawOf(res) ==
  IF res.Type = "String" THEN <<34>> \o res.Str \o <<34>> ELSE IntToStr(res.Num)

\* the raw text of an array: "[" e1 "," e2 ... "]"
RECURSIVE RawJoin(_, _)
RawJoin(elems, k) ==
  IF k > Len(elems) THEN <<93>>
  ELSE (IF k = 1 THEN <<>> ELSE <<44>>) \o RawOf(elems[k]) \o RawJoin(elems, k + 1)

ScalarValues ==
  {NumberResult(n) : n \in {-2, 0, 3}}
    \cup {StringResult(s) : s \in {PushDate, LeapDate, WestDate, EveDate} \cup NotDates}
    \cup {TrueResult, FalseResult, NullResult, ObjectResult(<<123, 125>>)}

ElementValues == {NumberResult(-2), NumberResult(0), NumberResult(3), StringResult(PushDate)}

SequenceValues ==
  {ArrayResult(<<91>> \o RawJoin(elems, 1), elems) :
     elems \in UNION {[1..n -> ElementValues] : n \in 0..MaxLen}}

\* the documents: {"v": value} for every value, and {} where the path is missing
ParseBodies ==
  {[wellFormed |-> TRUE, at |-> ("v" :> val)] : val \in ScalarValues \cup SequenceValues}
    \cup {[wellFormed |-> TRUE, at |-> <<>>]}

\* the aggregation tokens: the three of config.go, none, and one that is
\* not recognized
AggregateTokens == {AggregateSum, AggregateCount, AggregateMax, "", "avg"}

ValueTypes == {TypeDate, TypeFloat, ""}

ParseScenarios ==
  {[cfg |-> Config(<<RequestConfig(<<47, 118>>, EmptyStr,
                       <<MetricConfig(<<118>>, "v", vt, agg, NoLabels)>>)>>),
    server |-> <<{RespOK(body)}>>,
    invocations |-> 1] :
     vt \in ValueTypes, agg \in AggregateTokens, body \in ParseBodies}

(***************************************************************************)
(* State.                                                                  *)
(***************************************************************************)
VARIABLES
  cfg,        \* m.cfg, the configuration NewManager was given
  env,        \* the environment: server answers and number of invocations
  metrics,    \* m.metrics, the descriptor registry (name -> MetricInfo)
  described,  \* what the last Describe call sent (<<>> before the first)
  cpc,        \* per invocation: where Collect is
  loopIdx,    \* per invocation: index of the next request of the loop of line 86
  wg,         \* per invocation: the WaitGroup counter
  semaphore,  \* per invocation: number of permits in the channel of line 84
  worker,     \* per invocation and request: the goroutine of lines 88-94
  ch,         \* per invocation: what each worker has sent on ch
  ticker,     \* periodic mode: the ticker Manager.Start has made, if any
  startPc,    \* periodic mode: where Manager.Start is
  loopPc,     \* periodic mode: where the goroutine of Start's `for range ticker.C` is
  tickerC,    \* periodic mode: number of ticks buffered in ticker.C (capacity 1)
  passes,     \* periodic mode: number of scrapeAll calls made so far
  gauges,     \* periodic mode: the values set in the gauges of m.metricMap
  scrapeErrors \* periodic mode: the counter m.scrapeErrors

\* In the periodic mode cpc, loopIdx, wg and worker are those of the
\* scrapeAll passes, in the order of the calls.
vars ==
  <<cfg, env, metrics, described, cpc, loopIdx, wg, semaphore, worker, ch, ticker,
    startPc, loopPc, tickerC, passes, gauges, scrapeErrors>>

\* the variables of the periodic mode only
pushVars == <<ticker, startPc, loopPc, tickerC, passes, gauges, scrapeErrors>>

\* the variables of the pull mode (Describe and Collect)
collectVars == <<env, metrics, described, cpc, loopIdx, wg, semaphore, worker, ch>>

\* Start has not been called
NoTicker == [state |-> "none", d |-> 0]

\* the periodic collector before Start
NotStarted ==
  /\ ticker = NoTicker
  /\ startPc = "idle"
  /\ loopPc = "none"
  /\ tickerC = 0
  /\ passes = 0
  /\ gauges = <<>>
  /\ scrapeErrors = 0

Invocations == 1..MaxInvocations

\* the scrapeAll passes of the periodic collector
Passes == 1..MaxPasses

NumRequests == Len(cfg.Requests)

\* a goroutine that has not been started
NoWorker ==
  [pc |-> "none", req |-> 0, url |-> EmptyStr, jsonStr |-> NoBody,
   idx |-> 0, outcome |-> "", fetches |-> 0, resp |-> NoResp]

Init ==
  \E sc \in Scenarios :
    /\ cfg = sc.cfg
    /\ env = [server |-> sc.server, invocations |-> sc.invocations]
    /\ metrics \in initDescriptors(sc.cfg)
    /\ described = <<>>
    /\ cpc = [v \in Invocations |-> "idle"]
    /\ loopIdx = [v \in Invocations |-> 0]
    /\ wg = [v \in Invocations |-> 0]
    /\ semaphore = [v \in Invocations |-> 0]
    /\ worker = [v \in Invocations |-> [r \in 1..Len(sc.cfg.Requests) |-> NoWorker]]
    /\ ch = [v \in Invocations |-> [r \in 1..Len(sc.cfg.Requests) |-> <<>>]]
    /\ NotStarted

\* NewManager on one of the parseValue inputs
ParseInit ==
  \E sc \in ParseScenarios :
    /\ cfg = sc.cfg
    /\ env = [server |-> sc.server, invocations |-> sc.invocations]
    /\ metrics \in initDescriptors(sc.cfg)
    /\ described = <<>>
    /\ cpc = [v \in Invocations |-> "idle"]
    /\ loopIdx = [v \in Invocations |-> 0]
    /\ wg = [v \in Invocations |-> 0]
    /\ semaphore = [v \in Invocations |-> 0]
    /\ worker = [v \in Invocations |-> [r \in 1..Len(sc.cfg.Requests) |-> NoWorker]]
    /\ ch = [v \in Invocations |-> [r \in 1..Len(sc.cfg.Requests) |-> <<>>]]
    /\ NotStarted

\* the scrape_interval texts: an optional sign, digits or none, a unit,
\* none or an unknown one, and a second group or none
IntervalTexts ==
  {sign \o num \o unit \o more :
     sign \in {<<>>, <<43>>, <<45>>},
     num \in {<<>>, <<48>>, <<53>>, <<49, 53>>},
     unit \in {<<>>, <<109, 115>>, <<115>>, <<109>>, <<104>>, <<120>>},
     more \in {<<>>, <<51, 48, 115>>}}

\* NewManager on a configuration with more requests than permits, with
\* every kind of fetch failure, or with no request
LiveInit ==
  \E sc \in {ScCrowd, ScFaults, ScEmpty} :
    /\ cfg = sc.cfg
    /\ env = [server |-> sc.server, invocations |-> sc.invocations]
    /\ metrics \in initDescriptors(sc.cfg)
    /\ described = <<>>
    /\ cpc = [v \in Invocations |-> "idle"]
    /\ loopIdx = [v \in Invocations |-> 0]
    /\ wg = [v \in Invocations |-> 0]
    /\ semaphore = [v \in Invocations |-> 0]
    /\ worker = [v \in Invocations |-> [r \in 1..Len(sc.cfg.Requests) |-> NoWorker]]
    /\ ch = [v \in Invocations |-> [r \in 1..Len(sc.cfg.Requests) |-> <<>>]]
    /\ NotStarted

\* NewManager on the configuration two invocations collect at once
ConcInit ==
  /\ cfg = ScConcurrent.cfg
  /\ env = [server |-> ScConcurrent.server, invocations |-> ScConcurrent.invocations]
  /\ metrics \in initDescriptors(ScConcurrent.cfg)
  /\ described = <<>>
  /\ cpc = [v \in Invocations |-> "idle"]
  /\ loopIdx = [v \in Invocations |-> 0]
  /\ wg = [v \in Invocations |-> 0]
  /\ semaphore = [v \in Invocations |-> 0]
  /\ worker = [v \in Invocations |-> [r \in 1..Len(ScConcurrent.cfg.Requests) |-> NoWorker]]
  /\ ch = [v \in Invocations |-> [r \in 1..Len(ScConcurrent.cfg.Requests) |-> <<>>]]
  /\ NotStarted

\* InitMetrics of the periodic collector (part_004 lines 37-52): one gauge
\* with the label api_path for every metric name
InitMetrics(c) ==
  [n \in {AllMetrics(c.Requests)[k].Name : k \in 1..Len(AllMetrics(c.Requests))} |->
     [fqName |-> n, variableLabels |-> <<ApiPathKey>>]]

\* "-5h"
NegativeInterval == <<45, 53, 104>>

\* the periodic collector: two requests, "/u" with the gauge f (followers)
\* and "/e" with the gauge e (sum of #.n), answered differently from pass
\* to pass, with the default scrape_interval or a negative one
PushInit ==
  /\ \E text \in {DefaultScrapeInterval, NegativeInterval} :
       cfg = [GithubAPIURL |-> BaseURL,
              Requests |-> <<
                RequestConfig(<<47, 117>>, EmptyStr,
                  <<MetricConfig(<<102>>, "followers", "", "", NoLabels)>>),
                RequestConfig(<<47, 101>>, MethodGET,
                  <<MetricConfig(<<101>>, "#.n", "", "", NoLabels)>>) >>,
              ScrapeInterval |-> text]
  /\ env = [server |-> << {RespOK(BodyUser), RespOK(BodyUserLater),
                           RespStatus(500, BodyErrorPage)},
                          {RespOK(BodyEvents), RespReadErr} >>,
            invocations |-> 0]
  /\ metrics = InitMetrics(cfg)
  /\ described = <<>>
  /\ cpc = [v \in Passes |-> "idle"]
  /\ loopIdx = [v \in Passes |-> 0]
  /\ wg = [v \in Passes |-> 0]
  /\ semaphore = [v \in Passes |-> 0]
  /\ worker = [v \in Passes |-> [r \in 1..2 |-> NoWorker]]
  /\ ch = [v \in Passes |-> [r \in 1..2 |-> <<>>]]
  /\ NotStarted

\* a Config with a scrape_interval text and no request, before Load has
\* filled in its defaults and before Start
DurInit ==
  /\ \E text \in IntervalTexts :
       cfg = [GithubAPIURL |-> BaseURL, Requests |-> <<>>, ScrapeInterval |-> text]
  /\ env = [server |-> <<>>, invocations |-> 0]
  /\ metrics \in initDescriptors(cfg)
  /\ described = <<>>
  /\ cpc = [v \in Invocations |-> "idle"]
  /\ loopIdx = [v \in Invocations |-> 0]
  /\ wg = [v \in Invocations |-> 0]
  /\ semaphore = [v \in Invocations |-> 0]
  /\ worker = [v \in Invocations |-> <<>>]
  /\ ch = [v \in Invocations |-> <<>>]
  /\ NotStarted

(***************************************************************************)
(* Manager.Describe                                                        *)
(***************************************************************************)
Describe ==
  /\ described' = DescribeSends(metrics)
  /\ UNCHANGED <<pushVars, cfg, env, metrics, cpc, loopIdx, wg, semaphore, worker, ch>>

(***************************************************************************)
(* Manager.Collect                                                         *)
(***************************************************************************)
\* lines 82-86: a call of Collect with a fresh wait group, permit pool and
\* sink channel; with no request the loop is over at once
CollectCall(v) ==
  /\ cpc[v] = "idle"
  /\ v <= env.invocations
  /\ IF v = 1 THEN TRUE ELSE cpc[v - 1] # "idle"
  /\ cpc' = [cpc EXCEPT ![v] = IF NumRequests = 0 THEN "wait" ELSE "loop"]
  /\ loopIdx' = [loopIdx EXCEPT ![v] = 1]
  /\ UNCHANGED <<pushVars, cfg, env, metrics, described, wg, semaphore, worker, ch>>

\* lines 86-95: one iteration: wg.Add(1) and go func(r){...}(req)
Spawn(v) ==
  /\ cpc[v] = "loop"
  /\ wg' = [wg EXCEPT ![v] = @ + 1]
  /\ worker' = [worker EXCEPT ![v][loopIdx[v]] =
                  [NoWorker EXCEPT !.pc = "acquire", !.req = loopIdx[v]]]
  /\ loopIdx' = [loopIdx EXCEPT ![v] = @ + 1]
  /\ cpc' = [cpc EXCEPT ![v] = IF loopIdx[v] = NumRequests THEN "wait" ELSE "loop"]
  /\ UNCHANGED <<pushVars, cfg, env, metrics, described, semaphore, ch>>

\* a Collect that does not wait
WaitReturnsAtOnce(n) == TRUE

\* line 96: wg.Wait() returns when the counter is zero
WaitReturns(n) == n = 0

CollectReturn(v) ==
  /\ cpc[v] = "wait"
  /\ WaitReturns(wg[v])
  /\ cpc' = [cpc EXCEPT ![v] = "returned"]
  /\ UNCHANGED <<pushVars, cfg, env, metrics, described, loopIdx, wg, semaphore, worker, ch>>

(***************************************************************************)
(* The worker goroutine of lines 88-94 and Manager.fetchAndCollect         *)
(***************************************************************************)
\* a send that never blocks (a pool without a capacity)
CanAcquireAlways(held) == TRUE

\* a permit pool that all invocations share (a field of the Manager)
CanAcquireShared(held) ==
  Cardinality({x \in Invocations \X (1..NumRequests) :
                 worker[x[1]][x[2]].pc \in {"fetch", "metrics", "release"}})
    < SemaphoreCap

\* line 90: the send on the permit channel proceeds while it is not full
CanAcquire(held) == held < SemaphoreCap

Acquire(v, r) ==
  /\ worker[v][r].pc = "acquire"
  /\ CanAcquire(semaphore[v])
  /\ semaphore' = [semaphore EXCEPT ![v] = @ + 1]
  /\ worker' = [worker EXCEPT ![v][r].pc = "fetch"]
  /\ UNCHANGED <<pushVars, cfg, env, metrics, described, cpc, loopIdx, wg, ch>>

\* a worker that returns without the deferred permit release
AfterReturnLeak == "wgdone"

\* where the worker goes when fetchAndCollect returns from line 201: the
\* deferred permit release of line 91
AfterReturn == "release"

\* an early return that skips the permit release
AfterFetchErrorLeak == "wgdone"

\* an early return replaced by another attempt
AfterFetchErrorRetry == "fetch"

\* where the worker goes on the early returns of lines 116, 135, 153 and
\* 159: the same deferred permit release, with no retry
AfterFetchError == "release"

\* lines 99-160: build the request, do the round trip, check the status,
\* read the body; resp keeps the round trip the worker was answered with
Fetch(v, r) ==
  LET w == worker[v][r]
      reqCfg == cfg.Requests[w.req]
      path == TrimLeftSlash(reqCfg.ApiPath)
      url == cfg.GithubAPIURL \o <<47>> \o path
      method == IF reqCfg.Method = EmptyStr THEN MethodGET ELSE reqCfg.Method
  IN  /\ w.pc = "fetch"
      /\ IF NewRequestFails(method, url)
         THEN worker' = [worker EXCEPT ![v][r] =
                [w EXCEPT !.pc = AfterFetchError, !.url = url,
                          !.outcome = "newreq_err"]]
         ELSE \E resp \in env.server[w.req] :
                worker' = [worker EXCEPT ![v][r] =
                  IF FetchOutcome(resp) # "ok"
                  THEN [w EXCEPT !.pc = AfterFetchError, !.url = url,
                                 !.fetches = @ + 1, !.resp = resp,
                                 !.outcome = FetchOutcome(resp)]
                  ELSE [w EXCEPT !.pc = IF Len(reqCfg.Metrics) = 0
                                        THEN AfterReturn ELSE "metrics",
                                 !.url = url, !.fetches = @ + 1, !.resp = resp,
                                 !.outcome = "ok",
                                 !.jsonStr = resp.body, !.idx = 1]]
      /\ UNCHANGED <<pushVars, cfg, env, metrics, described, cpc, loopIdx, wg, semaphore, ch>>

\* the loop of line 162 moves on to the next MetricConfig
NextMetricIdx(idx) == idx + 1

\* lines 162-200: one iteration of the loop over reqCfg.Metrics
EmitMetric(v, r) ==
  LET w == worker[v][r]
      reqCfg == cfg.Requests[w.req]
      sent == MetricsSent(metrics, reqCfg, reqCfg.Metrics[w.idx], w.jsonStr)
  IN  /\ w.pc = "metrics"
      /\ ch' = [ch EXCEPT ![v][r] =
                  @ \o [k \in 1..Len(sent) |-> [midx |-> w.idx, metric |-> sent[k]]]]
      /\ worker' = [worker EXCEPT ![v][r] =
                      [w EXCEPT !.idx = NextMetricIdx(w.idx),
                                !.pc = IF NextMetricIdx(w.idx) > Len(reqCfg.Metrics)
                                       THEN AfterReturn ELSE "metrics"]]
      /\ UNCHANGED <<pushVars, cfg, env, metrics, described, cpc, loopIdx, wg, semaphore>>

\* line 91: the deferred <-semaphore
Release(v, r) ==
  /\ worker[v][r].pc = "release"
  /\ semaphore' = [semaphore EXCEPT ![v] = @ - 1]
  /\ worker' = [worker EXCEPT ![v][r].pc = "wgdone"]
  /\ UNCHANGED <<pushVars, cfg, env, metrics, described, cpc, loopIdx, wg, ch>>

\* line 89: the deferred wg.Done()
WgDone(v, r) ==
  /\ worker[v][r].pc = "wgdone"
  /\ wg' = [wg EXCEPT ![v] = @ - 1]
  /\ worker' = [worker EXCEPT ![v][r].pc = "done"]
  /\ UNCHANGED <<pushVars, cfg, env, metrics, described, cpc, loopIdx, semaphore, ch>>

(***************************************************************************)
(* Periodic mode: config.Load, and Manager.Start, scrapeAll and            *)
(* fetchAndProcess of the periodic collector.                              *)
(***************************************************************************)
\* config.go lines 82-84: Load fills in the default scrape_interval
LoadDefaults ==
  /\ startPc = "idle"
  /\ cfg' = [cfg EXCEPT !.ScrapeInterval =
               IF @ = EmptyStr THEN DefaultScrapeInterval ELSE @]
  /\ UNCHANGED <<collectVars, pushVars>>

\* time.NewTicker(d) panics unless d is positive
NewTicker(d) ==
  IF d <= 0 THEN [state |-> "panic", d |-> d] ELSE [state |-> "ticking", d |-> d]

\* Start, part_004 lines 54-57: the call of Start, which begins the first scrapeAll
\* itself; with no request the loop of scrapeAll is over at once
Start ==
  /\ startPc = "idle"
  /\ startPc' = "scrape"
  /\ passes' = 1
  /\ cpc' = [cpc EXCEPT ![1] = IF NumRequests = 0 THEN "wait" ELSE "loop"]
  /\ loopIdx' = [loopIdx EXCEPT ![1] = 1]
  /\ UNCHANGED <<cfg, env, metrics, described, wg, semaphore, worker, ch,
                 ticker, loopPc, tickerC, gauges, scrapeErrors>>

\* scrapeAll, lines 69-75: one iteration: wg.Add(1) and go func(r){...}(req)
ScrapeSpawn(p) ==
  /\ cpc[p] = "loop"
  /\ wg' = [wg EXCEPT ![p] = @ + 1]
  /\ worker' = [worker EXCEPT ![p][loopIdx[p]] =
                  [NoWorker EXCEPT !.pc = "fetch", !.req = loopIdx[p]]]
  /\ loopIdx' = [loopIdx EXCEPT ![p] = @ + 1]
  /\ cpc' = [cpc EXCEPT ![p] = IF loopIdx[p] = NumRequests THEN "wait" ELSE "loop"]
  /\ UNCHANGED <<cfg, env, metrics, described, semaphore, ch, pushVars>>

\* fetchAndProcess, lines 79-129, up to the body: every early return counts a scrape error
ScrapeFetch(p, r) ==
  LET w == worker[p][r]
      reqCfg == cfg.Requests[w.req]
      url == cfg.GithubAPIURL \o <<47>> \o TrimLeftSlash(reqCfg.ApiPath)
      method == IF reqCfg.Method = EmptyStr THEN MethodGET ELSE reqCfg.Method
  IN  /\ w.pc = "fetch"
      /\ IF NewRequestFails(method, url)
         THEN /\ worker' = [worker EXCEPT ![p][r] =
                   [w EXCEPT !.pc = "wgdone", !.url = url, !.outcome = "newreq_err"]]
              /\ scrapeErrors' = scrapeErrors + 1
         ELSE \E resp \in env.server[w.req] :
                IF ProcessOutcome(resp) # "ok"
                THEN /\ worker' = [worker EXCEPT ![p][r] =
                          [w EXCEPT !.pc = "wgdone", !.url = url,
                                    !.fetches = @ + 1, !.resp = resp,
                                    !.outcome = ProcessOutcome(resp)]]
                     /\ scrapeErrors' = scrapeErrors + 1
                ELSE /\ worker' = [worker EXCEPT ![p][r] =
                          [w EXCEPT !.pc = IF Len(reqCfg.Metrics) = 0
                                           THEN "wgdone" ELSE "gauges",
                                    !.url = url, !.fetches = @ + 1, !.resp = resp,
                                    !.outcome = "ok",
                                    !.jsonStr = resp.body, !.idx = 1]]
                     /\ scrapeErrors' = scrapeErrors
      /\ UNCHANGED <<cfg, env, metrics, described, cpc, loopIdx, wg, semaphore, ch,
                     ticker, startPc, loopPc, tickerC, passes, gauges>>

\* line 134: gauge.WithLabelValues(apiPath).Set(val)
GaugeSet(g, name, apiPath, val) ==
  [k \in DOMAIN g \cup {<<name, apiPath>>} |->
     IF k = <<name, apiPath>> THEN val ELSE g[k]]

\* fetchAndProcess, lines 131-136: one iteration of the loop over
\* reqCfg.Metrics
SetGauge(p, r) ==
  LET w == worker[p][r]
      reqCfg == cfg.Requests[w.req]
      metric == reqCfg.Metrics[w.idx]
  IN  /\ w.pc = "gauges"
      /\ gauges' = IF metric.Name \in DOMAIN metrics
                   THEN GaugeSet(gauges, metric.Name, reqCfg.ApiPath,
                                 parseValueGauge(w.jsonStr, metric))
                   ELSE gauges
      /\ worker' = [worker EXCEPT ![p][r] =
                      [w EXCEPT !.idx = w.idx + 1,
                                !.pc = IF w.idx + 1 > Len(reqCfg.Metrics)
                                       THEN "wgdone" ELSE "gauges"]]
      /\ UNCHANGED <<cfg, env, metrics, described, cpc, loopIdx, wg, semaphore, ch,
                     ticker, startPc, loopPc, tickerC, passes, scrapeErrors>>

\* scrapeAll, line 72: the deferred wg.Done()
ScrapeWgDone(p, r) ==
  /\ worker[p][r].pc = "wgdone"
  /\ wg' = [wg EXCEPT ![p] = @ - 1]
  /\ worker' = [worker EXCEPT ![p][r].pc = "done"]
  /\ UNCHANGED <<cfg, env, metrics, described, cpc, loopIdx, semaphore, ch, pushVars>>

\* scrapeAll, line 76: wg.Wait() returns and scrapeAll returns to its
\* caller: Start for the first pass, the ticker goroutine for the others
ScrapeJoin(p) ==
  /\ cpc[p] = "wait"
  /\ WaitReturns(wg[p])
  /\ cpc' = [cpc EXCEPT ![p] = "returned"]
  /\ startPc' = IF p = 1 THEN "ticker" ELSE startPc
  /\ loopPc' = IF p > 1 /\ loopPc = "scrape" THEN "recv" ELSE loopPc
  /\ UNCHANGED <<cfg, env, metrics, described, loopIdx, wg, semaphore, worker, ch,
                 ticker, tickerC, passes, gauges, scrapeErrors>>

\* Start, lines 59-65: the ticker is made with the interval GetDuration
\* returns, the goroutine of the ticker loop is started and Start returns;
\* when NewTicker panics there is no goroutine
StartTicker ==
  /\ startPc = "ticker"
  /\ ticker' = NewTicker(GetDuration(cfg))
  /\ startPc' = IF ticker'.state = "panic" THEN "panic" ELSE "returned"
  /\ loopPc' = IF ticker'.state = "panic" THEN "none" ELSE "recv"
  /\ UNCHANGED <<cfg, collectVars, tickerC, passes, gauges, scrapeErrors>>

\* the runtime timer of the ticker: a tick is put in ticker.C unless one is
\* waiting there already
Tick ==
  /\ ticker.state = "ticking"
  /\ tickerC' = 1
  /\ UNCHANGED <<cfg, collectVars, ticker, startPc, loopPc, passes, gauges, scrapeErrors>>

\* a ticker loop that hands every pass to a goroutine of its own
AfterTickGo == "recv"

\* lines 61-62: the goroutine that received the tick calls scrapeAll itself
AfterTick == "scrape"

\* the loop of lines 61-63: a tick is received and the next scrapeAll begins
TickReceive ==
  /\ loopPc = "recv"
  /\ tickerC = 1
  /\ passes < MaxPasses
  /\ tickerC' = 0
  /\ passes' = passes + 1
  /\ loopPc' = AfterTick
  /\ cpc' = [cpc EXCEPT ![passes + 1] = IF NumRequests = 0 THEN "wait" ELSE "loop"]
  /\ loopIdx' = [loopIdx EXCEPT ![passes + 1] = 1]
  /\ UNCHANGED <<cfg, env, metrics, described, wg, semaphore, worker, ch,
                 ticker, startPc, gauges, scrapeErrors>>

DurNext ==
  \/ LoadDefaults
  \/ Start
  \/ \E p \in Invocations : ScrapeJoin(p)
  \/ StartTicker

DurSpec == DurInit /\ [][DurNext]_vars

PushNext ==
  \/ Start
  \/ \E p \in Passes : ScrapeSpawn(p)
  \/ \E p \in Passes, r \in 1..NumRequests : ScrapeFetch(p, r)
  \/ \E p \in Passes, r \in 1..NumRequests : SetGauge(p, r)
  \/ \E p \in Passes, r \in 1..NumRequests : ScrapeWgDone(p, r)
  \/ \E p \in Passes : ScrapeJoin(p)
  \/ StartTicker
  \/ Tick
  \/ TickReceive

\* the periodic collector after InitMetrics
PushSpec == PushInit /\ [][PushNext]_vars

Next ==
  \/ Describe
  \/ \E v \in Invocations : CollectCall(v)
  \/ \E v \in Invocations : Spawn(v)
  \/ \E v \in Invocations : CollectReturn(v)
  \/ \E v \in Invocations, r \in 1..NumRequests : Acquire(v, r)
  \/ \E v \in Invocations, r \in 1..NumRequests : Fetch(v, r)
  \/ \E v \in Invocations, r \in 1..NumRequests : EmitMetric(v, r)
  \/ \E v \in Invocations, r \in 1..NumRequests : Release(v, r)
  \/ \E v \in Invocations, r \in 1..NumRequests : WgDone(v, r)

Spec == Init /\ [][Next]_vars

\* a step of a pass that is under way: the loop of Collect, a worker
\* goroutine, or wg.Wait() returning
PassStep ==
  \/ \E v \in Invocations : Spawn(v)
  \/ \E v \in Invocations : CollectReturn(v)
  \/ \E v \in Invocations, r \in 1..NumRequests : Acquire(v, r)
  \/ \E v \in Invocations, r \in 1..NumRequests : Fetch(v, r)
  \/ \E v \in Invocations, r \in 1..NumRequests : EmitMetric(v, r)
  \/ \E v \in Invocations, r \in 1..NumRequests : Release(v, r)
  \/ \E v \in Invocations, r \in 1..NumRequests : WgDone(v, r)

\* the sink calls Collect, and the pass runs
PassNext ==
  \/ \E v \in Invocations : CollectCall(v)
  \/ PassStep

\* The Go scheduler runs a runnable goroutine eventually; the round trip
\* of line 132 ends by the client timeout of line 39 at the latest, and
\* the sink receives what is sent on ch (line 199): while some step of a
\* pass is possible, one is eventually taken.  Nothing is assumed about
\* the sink calling Collect.
LiveSpec == LiveInit /\ [][PassNext]_vars /\ WF_vars(PassStep)

\* Describe and two concurrent Collect invocations
ConcSpec == ConcInit /\ [][Next]_vars

\* Describe and Collect on the parseValue inputs
ParseSpec == ParseInit /\ [][Next]_vars

(***************************************************************************)
(* Properties.                                                             *)
(***************************************************************************)
\* the workers of invocation v between permit acquisition and release
Holding(v) ==
  {r \in 1..NumRequests : worker[v][r].pc \in {"fetch", "metrics", "release"}}

\* the worker has left the fetch part of fetchAndCollect (lines 99-160)
Fetched(w) == w.pc \in {"metrics", "release", "wgdone", "done"}

\* the fetch of the worker failed: no request could be built, the
\* transport failed, the status was outside 200..299, or the body could
\* not be read
FetchFailed(w) ==
  \/ w.fetches = 0
  \/ w.resp.err
  \/ w.resp.StatusCode \notin 200..299
  \/ w.resp.readErr

\* the samples a request emits from the body alone, in configuration order
RECURSIVE SamplesFrom(_, _, _)
SamplesFrom(reqCfg, body, k) ==
  IF k > Len(reqCfg.Metrics) THEN <<>>
  ELSE LET sent == MetricsSent(metrics, reqCfg, reqCfg.Metrics[k], body)
       IN  [j \in 1..Len(sent) |-> [midx |-> k, metric |-> sent[j]]]
             \o SamplesFrom(reqCfg, body, k + 1)

\* C1: in every Collect pass at most SemaphoreCap = 5 workers are between
\* permit acquisition and release, whatever the number of requests, and
\* when the pass has returned every request has been processed exactly
\* once: one worker took it, made at most one round trip and is done,
\* having emitted its samples or skipped the request.
C1_BoundedFanOut ==
  \A v \in Invocations :
    /\ Cardinality(Holding(v)) <= 5
    /\ cpc[v] = "returned" =>
         \A q \in 1..NumRequests :
           /\ Cardinality({r \in 1..NumRequests : worker[v][r].req = q}) = 1
           /\ \A r \in 1..NumRequests :
                worker[v][r].req = q =>
                  /\ worker[v][r].pc = "done"
                  /\ worker[v][r].fetches <= 1
                  /\ worker[v][r].outcome # ""
                  /\ worker[v][r].outcome # "ok" => ch[v][r] = <<>>

\* C1 witness: more requests than permits, all permits taken and a worker
\* waiting for one
C1_Witness ==
  /\ NumRequests > SemaphoreCap
  /\ Cardinality(Holding(1)) = SemaphoreCap
  /\ \E r \in 1..NumRequests : worker[1][r].pc = "acquire"

\* C2: fault isolation: when a pass has returned, every request whose
\* fetch failed has emitted nothing and every request whose fetch
\* succeeded has emitted exactly the samples of its own response body,
\* whichever of the other requests failed.
C2_FaultIsolation ==
  \A v \in Invocations :
    cpc[v] = "returned" =>
      \A r \in 1..NumRequests :
        LET w == worker[v][r]
        IN  IF FetchFailed(w) THEN ch[v][r] = <<>>
            ELSE ch[v][r] = SamplesFrom(cfg.Requests[r], w.resp.body, 1)

\* C2 witness: a returned pass in which one request failed and another
\* succeeded and emitted samples
C2_Witness ==
  /\ cpc[1] = "returned"
  /\ \E r, q \in 1..NumRequests :
       /\ FetchFailed(worker[1][r])
       /\ ~FetchFailed(worker[1][q])
       /\ ch[1][q] # <<>>

\* C3: a fetch that fails (request construction, transport, status outside
\* 200..299, body read) emits no sample and is not fatal: the worker goes
\* straight to its exit, the permits in the pool are exactly those of the
\* workers still between acquisition and release, and the pass returns
\* with the worker done.
C3_FetchErrorSkips ==
  \A v \in Invocations :
    /\ semaphore[v] = Cardinality(Holding(v))
    /\ \A r \in 1..NumRequests :
         LET w == worker[v][r]
         IN  Fetched(w) /\ FetchFailed(w) =>
               /\ ch[v][r] = <<>>
               /\ w.pc \in {"release", "wgdone", "done"}
               /\ w.outcome \in {"newreq_err", "do_err", "status_err", "read_err"}
               /\ w.fetches <= 1

\* C3 witness: a pass has returned in which one request could not be
\* built, one was answered with a status outside 200..299 and one failed
\* in the transport or in the body read
C3_Witness ==
  /\ cpc[1] = "returned"
  /\ \E r \in 1..NumRequests : worker[1][r].outcome = "newreq_err"
  /\ \E r \in 1..NumRequests : worker[1][r].outcome = "status_err"
  /\ \E r \in 1..NumRequests : worker[1][r].outcome \in {"do_err", "read_err"}

\* C4: a request whose fetch succeeded with a body that is not well-formed
\* JSON emits no sample at all in that pass.
C4_MalformedBodySkipped ==
  \A v \in Invocations : \A r \in 1..NumRequests :
    LET w == worker[v][r]
    IN  Fetched(w) /\ ~FetchFailed(w) /\ ~w.resp.body.wellFormed =>
          ch[v][r] = <<>>

\* C5: within a pass each request makes exactly one round trip (none when
\* the request cannot be built), never a second one after a failure or a
\* success, and the value and the document-derived label values of every
\* sample it has emitted are those of the body of that one round trip.
C5_SingleSnapshot ==
  \A v \in Invocations : \A r \in 1..NumRequests :
    LET w == worker[v][r]
    IN  /\ w.fetches <= 1
        /\ Fetched(w) /\ w.outcome # "newreq_err" => w.fetches = 1
        /\ \A k \in 1..Len(ch[v][r]) :
             LET s == ch[v][r][k].metric
                 mc == cfg.Requests[r].Metrics[ch[v][r][k].midx]
             IN  /\ s.value = parseValue(w.resp.body, mc)
                 /\ \A j \in 1..Len(s.labelValues) :
                      LET name == s.desc.variableLabels[j]
                      IN  name # ApiPathKey /\ name \in DOMAIN mc.Labels =>
                            s.labelValues[j] =
                              ResultString(gjsonGet(w.resp.body, mc.Labels[name]))

\* C5 witness: a worker is done after emitting two samples from the later
\* of the two bodies its server could answer with
C5_Witness ==
  \E r \in 1..NumRequests :
    /\ worker[1][r].pc = "done"
    /\ worker[1][r].resp.body = BodyUserLater
    /\ Len(ch[1][r]) = 2
    /\ ch[1][r][1].metric.value = 101
    /\ ch[1][r][2].metric.value = 51

\* C6: when Collect has returned, every worker of that invocation is done,
\* its permit pool is empty and its wait group is at zero; and from then
\* on nothing more is sent on the channel of that invocation.
C6_ReturnsAfterWorkers ==
  /\ [](\A v \in Invocations :
          cpc[v] = "returned" =>
            /\ \A r \in 1..NumRequests : worker[v][r].pc = "done"
            /\ semaphore[v] = 0
            /\ wg[v] = 0)
  /\ [][\A v \in Invocations :
          cpc[v] = "returned" => ch'[v] = ch[v] /\ worker'[v] = worker[v]]_vars

\* C6 witness: the first invocation has returned with samples sent while
\* the workers of the second are still in flight
C6_Witness ==
  /\ cpc[1] = "returned"
  /\ \E r \in 1..NumRequests : ch[1][r] # <<>>
  /\ cpc[2] = "wait"
  /\ Holding(2) # {}

\* C7: when a pass has returned, every request whose fetch succeeded has
\* emitted exactly one sample for each of its MetricConfigs whose name is
\* in the registry.
C7_OneSamplePerMetric ==
  \A v \in Invocations :
    cpc[v] = "returned" =>
      \A r \in 1..NumRequests :
        ~FetchFailed(worker[v][r]) =>
          \A i \in 1..Len(cfg.Requests[r].Metrics) :
            cfg.Requests[r].Metrics[i].Name \in DOMAIN metrics =>
              Cardinality({k \in 1..Len(ch[v][r]) : ch[v][r][k].midx = i}) = 1

\* C8: every emitted sample is built on the registry's descriptor of its
\* metric name and carries as many label values as the descriptor has
\* label names, the value at each position being the one of the name at
\* that position: the request's path for the reserved name, the document
\* value for a name of the metric's label mapping, "" for any other name.
C8_LabelsAligned ==
  \A v \in Invocations : \A r \in 1..NumRequests :
    \A k \in 1..Len(ch[v][r]) :
      LET s == ch[v][r][k].metric
          mc == cfg.Requests[r].Metrics[ch[v][r][k].midx]
          body == worker[v][r].resp.body
      IN  /\ s.desc = metrics[mc.Name].Desc
          /\ Len(s.labelValues) = Len(s.desc.variableLabels)
          /\ \A j \in 1..Len(s.desc.variableLabels) :
               LET name == s.desc.variableLabels[j]
               IN  s.labelValues[j] =
                     IF name = ApiPathKey THEN cfg.Requests[r].ApiPath
                     ELSE IF name \in DOMAIN mc.Labels
                          THEN ResultString(gjsonGet(body, mc.Labels[name]))
                          ELSE EmptyStr

\* C8 witness: a sample of a metric name declared twice with different
\* label sets, emitted by the declaration the registry did not keep
C8_Witness ==
  \E r \in 1..NumRequests : \E k \in 1..Len(ch[1][r]) :
    LET s == ch[1][r][k].metric
        mc == cfg.Requests[r].Metrics[ch[1][r][k].midx]
    IN  /\ Len(s.labelValues) = 2
        /\ metrics[mc.Name].Config # mc
        /\ \E j \in 1..2 : s.desc.variableLabels[j] \notin DOMAIN mc.Labels \cup {ApiPathKey}

\* C9: in every emitted sample the reserved label api_path is present and
\* its value is the configured ApiPath of the request, leading slashes
\* included, whatever the document holds.
C9_IdentityLabel ==
  \A v \in Invocations : \A r \in 1..NumRequests :
    \A k \in 1..Len(ch[v][r]) :
      LET s == ch[v][r][k].metric
      IN  /\ \E j \in 1..Len(s.labelValues) : s.desc.variableLabels[j] = ApiPathKey
          /\ \A j \in 1..Len(s.labelValues) :
               s.desc.variableLabels[j] = ApiPathKey =>
                 s.labelValues[j] = cfg.Requests[r].ApiPath

\* C9 witness: a sample of a metric whose label mapping declares the
\* reserved name with a path the document answers
C9_Witness ==
  \E r \in 1..NumRequests : \E k \in 1..Len(ch[1][r]) :
    LET mc == cfg.Requests[r].Metrics[ch[1][r][k].midx]
    IN  /\ ApiPathKey \in DOMAIN mc.Labels
        /\ gjsonGet(worker[1][r].resp.body, mc.Labels[ApiPathKey]).Type = "String"

\* the metric names the configuration declares
ConfiguredNames ==
  {AllMetrics(cfg.Requests)[k].Name : k \in 1..Len(AllMetrics(cfg.Requests))}

\* C10: the registry never changes after NewManager, whatever Describe and
\* Collect calls are made; every Describe call sends exactly one
\* descriptor for each distinct configured metric name and nothing else,
\* so all Describe calls send the same descriptors.
C10_RegistryFixed ==
  /\ [][metrics' = metrics]_vars
  /\ [](DOMAIN metrics = ConfiguredNames)
  /\ [](described # <<>> =>
          /\ \A n \in ConfiguredNames :
               \E d \in DOMAIN described :
                 /\ d.fqName = n
                 /\ described[d] = 1
                 /\ \A e \in DOMAIN described : e.fqName = n => e = d
          /\ \A d \in DOMAIN described : d.fqName \in ConfiguredNames)
  /\ [][described # <<>> => described' = described]_vars

\* C10 witness: Describe has been called and a pass has returned, for a
\* configuration that declares a metric name twice
C10_Witness ==
  /\ described # <<>>
  /\ cpc[1] = "returned"
  /\ Cardinality(ConfiguredNames) < Len(AllMetrics(cfg.Requests))

\* the names a descriptor's label list is made of
LabelNameSet(info) == {info.LabelKeys[i] : i \in 1..Len(info.LabelKeys)}

\* C11: for every metric of the registry the label-name list is the set
\* union of the reserved name api_path and the keys of the metric's label
\* mapping, in strictly ascending lexicographic order, so that no name
\* occurs twice, whatever order the map was iterated in.
C11_LabelNamesSetUnion ==
  \A n \in DOMAIN metrics :
    /\ LabelNameSet(metrics[n]) = {ApiPathKey} \cup DOMAIN metrics[n].Config.Labels
    /\ \A i, j \in 1..Len(metrics[n].LabelKeys) :
         i < j => StrLess(metrics[n].LabelKeys[i], metrics[n].LabelKeys[j])

\* C12: passes are stateless relative to one another: the registry is at
\* all times the one initialization built from the configuration, and of
\* two returned passes each request has emitted samples that depend on
\* its own round trip of that pass only: nothing when that fetch failed
\* (even if the other pass got samples for it), the values of its own
\* response body otherwise, and the same samples as the other pass
\* whenever the two round trips were the same.
C12_PassesStateless ==
  /\ metrics \in initDescriptors(cfg)
  /\ \A v, u \in Invocations :
       (cpc[v] = "returned" /\ cpc[u] = "returned") =>
         \A r \in 1..NumRequests :
           LET w == worker[v][r]
               o == worker[u][r]
           IN  /\ FetchFailed(w) => ch[v][r] = <<>>
               /\ ~FetchFailed(w) =>
                    \A k \in 1..Len(ch[v][r]) :
                      ch[v][r][k].metric.value =
                        parseValue(w.resp.body, cfg.Requests[r].Metrics[ch[v][r][k].midx])
               /\ (w.resp = o.resp /\ w.fetches = o.fetches) => ch[v][r] = ch[u][r]

\* C12 witness: two returned passes of which the first got a sample for a
\* request and the second, whose fetch of that request failed, got none
C12_Witness ==
  /\ cpc[1] = "returned"
  /\ cpc[2] = "returned"
  /\ \E r \in 1..NumRequests :
       /\ ~FetchFailed(worker[1][r])
       /\ ch[1][r] # <<>>
       /\ worker[2][r].fetches = 1
       /\ FetchFailed(worker[2][r])
       /\ ch[2][r] = <<>>

\* C13: every Collect pass terminates: under LiveSpec, whatever has
\* happened, a moment comes at which no pass is under way, every pass
\* that was called having returned with every one of its workers done
\* (none left waiting for a permit), for any number of requests and any
\* mix of failing and succeeding fetches.
C13_PassTerminates ==
  []<>(\A v \in Invocations :
         /\ cpc[v] \in {"idle", "returned"}
         /\ cpc[v] = "returned" =>
              \A r \in 1..NumRequests : worker[v][r].pc = "done")

\* C13 witness: a pass over more requests than permits has returned, some
\* of its fetches having failed and some succeeded
C13_Witness ==
  /\ NumRequests > SemaphoreCap
  /\ cpc[1] = "returned"
  /\ \E r, q \in 1..NumRequests :
       /\ FetchFailed(worker[1][r])
       /\ ~FetchFailed(worker[1][q])

\* the worker has run the loop over its metrics to the end
Emitted(w) == w.outcome = "ok" /\ w.pc \in {"release", "wgdone", "done"}

\* what the path of the first metric of request r yields on the body the
\* worker of the first pass has read
Yielded(r) == gjsonGet(worker[1][r].jsonStr, cfg.Requests[r].Metrics[1].Path)

\* the sum of a sequence of numbers
RECURSIVE SeqSum(_)
SeqSum(nums) == IF nums = <<>> THEN 0 ELSE Head(nums) + SeqSum(Tail(nums))

\* the aggregate of a sequence of numbers under an aggregation token
Aggregated(nums, token) ==
  CASE token = "count" -> Len(nums)
    [] token = "max" ->
         IF nums = <<>> THEN 0
         ELSE CHOOSE m \in {nums[k] : k \in 1..Len(nums)} :
                \A k \in 1..Len(nums) : nums[k] <= m
    [] OTHER -> SeqSum(nums)

\* C14: when the path yields a sequence of N numbers, the value of the
\* emitted sample is N for count, the greatest element for max (0 for the
\* empty sequence) and the sum of the elements for sum, for no token and
\* for an unrecognized token (0 for the empty sequence).
C14_SequenceAggregation ==
  \A r \in 1..NumRequests :
    (/\ Emitted(worker[1][r])
     /\ ResultIsArray(Yielded(r))
     /\ \A k \in 1..Len(Yielded(r).Elems) : Yielded(r).Elems[k].Type = "Number") =>
      /\ Len(ch[1][r]) >= 1
      /\ ch[1][r][1].metric.value =
           Aggregated([k \in 1..Len(Yielded(r).Elems) |-> Yielded(r).Elems[k].Num],
                      cfg.Requests[r].Metrics[1].Aggregate)

\* C14 witness: a sample has been emitted for the max of a sequence of
\* negative numbers, and the token is one of those the claim names
C14_Witness ==
  /\ Emitted(worker[1][1])
  /\ ResultIsArray(Yielded(1))
  /\ Len(Yielded(1).Elems) = MaxLen
  /\ \A k \in 1..Len(Yielded(1).Elems) : Yielded(1).Elems[k] = NumberResult(-2)
  /\ cfg.Requests[1].Metrics[1].Aggregate = "max"
  /\ ch[1][1][1].metric.value = -2

\* the Unix seconds of the RFC3339 texts of the inputs
EpochOf(s) ==
  CASE s = PushDate -> 1705314600
    [] s = LeapDate -> 1709243999
    [] s = WestDate -> 951886800
    [] s = EveDate -> 946684799

\* C15: with the date value type and a path that yields no sequence, one
\* sample is emitted, and its value is the Unix seconds of the scalar
\* when it is a string that parses as RFC3339 and 0 in every other case:
\* a string that does not parse, a number, a boolean, an object, null or
\* a missing path.
C15_DateScalar ==
  \A r \in 1..NumRequests :
    (/\ Emitted(worker[1][r])
     /\ cfg.Requests[r].Metrics[1].ValueType = TypeDate
     /\ ~ResultIsArray(Yielded(r))) =>
      /\ Len(ch[1][r]) >= 1
      /\ ch[1][r][1].midx = 1
      /\ ch[1][r][1].metric.value =
           IF Yielded(r).Type = "String" /\ Yielded(r).Str \notin NotDates
           THEN EpochOf(Yielded(r).Str)
           ELSE 0

\* C15 witness: a date with a zone offset has been emitted as its Unix
\* seconds
C15_Witness ==
  /\ Emitted(worker[1][1])
  /\ cfg.Requests[1].Metrics[1].ValueType = TypeDate
  /\ Yielded(1) = StringResult(LeapDate)
  /\ ch[1][1][1].metric.value = 1709243999

\* C15 witness of the other cases: a pass has returned with a sample of
\* value 0 for a date text that does not parse
C15_WitnessZero ==
  /\ cpc[1] = "returned"
  /\ cfg.Requests[1].Metrics[1].ValueType = TypeDate
  /\ Yielded(1).Type = "String"
  /\ Yielded(1).Str \in NotDates
  /\ Len(ch[1][1]) = 1
  /\ ch[1][1][1].metric.value = 0

\* the number Result.Float() makes of an element of the input sequences:
\* the number itself, and 0 for a date text
ElementFloat(e) == IF e.Type = "Number" THEN e.Num ELSE 0

\* C18: when the path yields a sequence, the value type plays no part:
\* with the date value type the emitted value is the aggregate of the
\* elements read as numbers, as with the numeric value type, for every
\* sequence (of numbers, of date texts, mixed, empty) and every
\* aggregation token.
C18_DateIgnoredOnSequence ==
  \A r \in 1..NumRequests :
    (/\ Emitted(worker[1][r])
     /\ ResultIsArray(Yielded(r))) =>
      /\ Len(ch[1][r]) >= 1
      /\ ch[1][r][1].metric.value =
           Aggregated([k \in 1..Len(Yielded(r).Elems) |-> ElementFloat(Yielded(r).Elems[k])],
                      cfg.Requests[r].Metrics[1].Aggregate)

\* C18 witness: with the date value type, the sum of a sequence holding a
\* date text and the number 3 has been emitted as 3
C18_Witness ==
  /\ Emitted(worker[1][1])
  /\ cfg.Requests[1].Metrics[1].ValueType = TypeDate
  /\ cfg.Requests[1].Metrics[1].Aggregate = AggregateSum
  /\ ResultIsArray(Yielded(1))
  /\ Yielded(1).Elems = <<StringResult(PushDate), NumberResult(3)>>
  /\ ch[1][1][1].metric.value = 3

\* C16: once Start has made the ticker, its interval is the configured
\* scrape_interval whenever that text is a valid duration and 15 minutes
\* whenever it is absent or not a valid duration, and it is strictly
\* positive, so that the ticker ticks.
C16_IntervalPositive ==
  ticker.state # "none" =>
    /\ ParseDuration(cfg.ScrapeInterval).ok =>
         ticker.d = ParseDuration(cfg.ScrapeInterval).d
    /\ ~ParseDuration(cfg.ScrapeInterval).ok => ticker.d = 900000
    /\ ticker.d > 0
    /\ ticker.state = "ticking"

\* C17: for every configured metric name, declared once or several times,
\* the registry holds one entry, made from the declaration that comes
\* last in configuration order (its configuration, its label names), and
\* every sample any pass has emitted for a declaration of that name
\* carries the descriptor of that one entry.
C17_LastDeclarationWins ==
  LET flat == AllMetrics(cfg.Requests)
  IN  /\ DOMAIN metrics = {flat[k].Name : k \in 1..Len(flat)}
      /\ \A k \in 1..Len(flat) :
           (\A j \in (k + 1)..Len(flat) : flat[j].Name # flat[k].Name) =>
             /\ metrics[flat[k].Name].Config = flat[k]
             /\ metrics[flat[k].Name].Desc.fqName = flat[k].Name
             /\ LabelNameSet(metrics[flat[k].Name]) =
                  {ApiPathKey} \cup DOMAIN flat[k].Labels
             /\ metrics[flat[k].Name].Desc.variableLabels =
                  metrics[flat[k].Name].LabelKeys
      /\ \A v \in Invocations : \A r \in 1..NumRequests : \A k \in 1..Len(ch[v][r]) :
           ch[v][r][k].metric.desc =
             metrics[cfg.Requests[r].Metrics[ch[v][r][k].midx].Name].Desc

\* C17 witness: a pass has returned in which two declarations of one name
\* with different label mappings, made in different requests, have both
\* emitted a sample
C17_Witness ==
  /\ cpc[1] = "returned"
  /\ \E r, q \in 1..NumRequests : \E k \in 1..Len(ch[1][r]) : \E j \in 1..Len(ch[1][q]) :
       LET a == cfg.Requests[r].Metrics[ch[1][r][k].midx]
           b == cfg.Requests[q].Metrics[ch[1][q][j].midx]
       IN  /\ r < q
           /\ a.Name = b.Name
           /\ DOMAIN a.Labels # DOMAIN b.Labels
           /\ ch[1][r][k].metric.desc = ch[1][q][j].metric.desc
           /\ metrics[a.Name].Config = b

\* C19: permit accounting of a pass.  The pool of every pass holds as many
\* permits as the pass has workers between acquisition and release, never
\* fewer than 0 nor more than SemaphoreCap.  A worker takes exactly one
\* permit, on its way from waiting to its fetch; it keeps it through the
\* fetch and through the whole loop over its metrics; whichever way it
\* leaves them (a fetch error, a sample that cannot be built, the end of
\* the loop) it goes to its release, where it gives back exactly one
\* permit; and the pool changes by no other step.
C19_PermitAccounting ==
  /\ [](\A v \in Invocations :
          /\ semaphore[v] \in 0..SemaphoreCap
          /\ semaphore[v] = Cardinality(Holding(v)))
  /\ [][\A v \in Invocations :
          /\ \A r \in 1..NumRequests :
               LET a == worker[v][r].pc
                   b == worker'[v][r].pc
               IN  /\ (a = "none" /\ b # a) => b = "acquire"
                   /\ (a = "acquire" /\ b # a) =>
                        b = "fetch" /\ semaphore'[v] = semaphore[v] + 1
                   /\ (a = "fetch" /\ b # a) =>
                        b \in {"metrics", "release"} /\ semaphore'[v] = semaphore[v]
                   /\ (a = "metrics" /\ b # a) =>
                        /\ b = "release"
                        /\ semaphore'[v] = semaphore[v]
                        /\ worker'[v][r].idx > Len(cfg.Requests[r].Metrics)
                   /\ (a = "release" /\ b # a) =>
                        b = "wgdone" /\ semaphore'[v] = semaphore[v] - 1
                   /\ (a = "wgdone" /\ b # a) => b = "done"
                   /\ a = "done" => b = "done"
          /\ semaphore'[v] # semaphore[v] =>
               \E r \in 1..NumRequests :
                 /\ worker[v][r].pc \in {"acquire", "release"}
                 /\ worker'[v][r].pc # worker[v][r].pc]_vars

\* C19 witness: a worker whose loop met a sample that could not be built
\* still holds its permit after emitting the other samples, while a worker
\* whose fetch failed has given its permit back and is done
C19_Witness ==
  \E r, q \in 1..NumRequests :
    /\ worker[1][r].pc = "release"
    /\ worker[1][r].outcome = "ok"
    /\ ch[1][r] # <<>>
    /\ Len(ch[1][r]) < Len(cfg.Requests[r].Metrics)
    /\ worker[1][q].pc = "done"
    /\ FetchFailed(worker[1][q])
    /\ semaphore[1] = 1

\* C20: every Collect invocation has its own permit pool and its own wait
\* group.  A worker waiting for a permit can take one as soon as fewer
\* than SemaphoreCap workers of its own invocation hold one, whatever the
\* workers of the other invocation hold; wg.Wait() of an invocation can
\* return as soon as its own workers are done, whatever the other
\* invocation is doing; and an invocation that has returned has emitted
\* the complete sample set of its own round trips.
C20_InvocationsIndependent ==
  \A v \in Invocations :
    /\ \A r \in 1..NumRequests :
         (worker[v][r].pc = "acquire" /\ Cardinality(Holding(v)) < SemaphoreCap)
           => ENABLED Acquire(v, r)
    /\ (cpc[v] = "wait" /\ \A r \in 1..NumRequests : worker[v][r].pc = "done")
         => ENABLED CollectReturn(v)
    /\ cpc[v] = "returned" =>
         \A r \in 1..NumRequests :
           /\ worker[v][r].pc = "done"
           /\ Len(ch[v][r]) =
                IF FetchFailed(worker[v][r]) THEN 0 ELSE Len(cfg.Requests[r].Metrics)
           /\ \A k \in 1..Len(ch[v][r]) :
                ch[v][r][k] =
                  [midx |-> k,
                   metric |-> MetricsSent(metrics, cfg.Requests[r],
                                          cfg.Requests[r].Metrics[k],
                                          worker[v][r].resp.body)[1]]

\* C20 witness: two invocations under way at once, whose workers hold
\* five permits between them, while a sixth worker is waiting for one
C20_Witness ==
  /\ cpc[1] = "wait"
  /\ cpc[2] = "wait"
  /\ Cardinality(Holding(1)) + Cardinality(Holding(2)) = SemaphoreCap
  /\ \E v \in {1, 2}, r \in 1..NumRequests : worker[v][r].pc = "acquire"

(***************************************************************************)
(* Scrape passes of the periodic collector.                                *)
(***************************************************************************)
\* the workers of pass p that have been started and have not finished
InFlight(p) ==
  {r \in 1..NumRequests : worker[p][r].pc \in {"fetch", "gauges", "wgdone"}}

\* pass p is running: scrapeAll has been called and has not returned
Running(p) == cpc[p] \in {"loop", "wait"}

\* C21: scrape passes of the periodic collector never overlap: the ticker
\* is created only after the first scrapeAll has returned, every later
\* pass is run by the ticker goroutine itself, a pass begins only after the
\* pass before it has joined all of its workers and returned, and at any
\* time the workers in flight belong to at most one pass
C21_PassesNeverOverlap ==
  /\ ticker.state # "none" => cpc[1] = "returned"
  /\ Running(1) => startPc = "scrape"
  /\ \A p \in Passes :
       /\ cpc[p] = "returned" => wg[p] = 0 /\ InFlight(p) = {}
       /\ cpc[p] = "idle" => InFlight(p) = {}
       /\ p > 1 /\ cpc[p] # "idle" => cpc[p - 1] = "returned" /\ ticker.state = "ticking"
       /\ p > 1 /\ Running(p) => loopPc = "scrape"
  /\ \A p, q \in Passes : InFlight(p) # {} /\ InFlight(q) # {} => p = q
  /\ \A p, q \in Passes : Running(p) /\ Running(q) => p = q

\* a pass started by the ticker goroutine has workers in flight, after the
\* first pass had workers of its own and joined them, while the next tick
\* is waiting in ticker.C
C21_Witness ==
  /\ passes >= 2
  /\ InFlight(2) # {}
  /\ cpc[1] = "returned"
  /\ \A r \in 1..NumRequests : worker[1][r].pc = "done"
  /\ tickerC = 1

====
